---- MODULE Spec2Model ----
(***************************************************************************)
(* A model of LSTMUnitRewriterV2 (tf2onnx/rewriter/lstm_rewriter_v2.py):   *)
(* the pass that lowers a TensorFlow LSTM cell inside a while-loop to one  *)
(* ONNX LSTM node.  Each method of the class is one action; numpy calls    *)
(* are operators that compute what numpy computes.                         *)
(*                                                                         *)
(* Three specifications share the variables:                               *)
(*   SpecWeights  find_cell, get_weight_and_bias, get_attributes,          *)
(*                process_weights_and_bias                                 *)
(*   SpecState    the state-variable finders and is_valid                  *)
(*   SpecRewire   process_var_init_nodes, create_rnn_node and the three    *)
(*                output connectors                                        *)
(* The order in which the methods run is the order of the rewrite driver   *)
(* (UnitRnnRewriterBase): matcher, extractor, attribute check, resolver,   *)
(* validity check, layout transform, initial state, node, reconnection.    *)
(***************************************************************************)
EXTENDS Integers, Sequences, FiniteSets, TLC

\* ------------------------------------------------------------------ bounds
MaxBiasLen == 12    \* longest combined bias / widest kernel drawn
MaxRows == 4        \* most kernel rows drawn

\* ------------------------------------------------------- optional values
\* Python's None is the empty tuple, a present value v is <<v>>.
None == <<>>
Some(v) == <<v>>
IsNone(o) == Len(o) = 0

\* ------------------------------------------------------------------ numpy
\* An array is [shape |-> <<d1, ..>>, data |-> nested sequences].

\* np.reshape(b, (1, n)) of a 1-D array of n elements
NpReshapeRow(a) == [shape |-> <<1, a.shape[1]>>, data |-> <<a.data>>]

\* np.split(a, k, axis=1) raises ValueError unless k divides the axis length
NpSplitDivides(a, k) == a.shape[2] % k = 0

\* np.split(a, k, axis=1): the k equal column blocks of a 2-D array
NpSplitCols(a, k) ==
    LET r == a.shape[1]
        w == a.shape[2] \div k
    IN  [s \in 1..k |->
            [shape |-> <<r, w>>,
             data |-> [i \in 1..r |-> [j \in 1..w |-> a.data[i][(s - 1) * w + j]]]]]

\* np.split(a, [idx]) along axis 0: <<a[0:idx], a[idx:]>> with Python's
\* slice rules for a negative or out-of-range idx
NpSplitRowsAt(a, idx) ==
    LET r == a.shape[1]
        c == a.shape[2]
        cut == IF idx < 0
               THEN (IF r + idx < 0 THEN 0 ELSE r + idx)
               ELSE (IF idx > r THEN r ELSE idx)
    IN  << [shape |-> <<cut, c>>, data |-> [i \in 1..cut |-> a.data[i]]],
           [shape |-> <<r - cut, c>>, data |-> [i \in 1..(r - cut) |-> a.data[cut + i]]] >>

RECURSIVE JoinRow(_, _, _)
JoinRow(parts, i, k) ==
    IF k = 0 THEN <<>> ELSE JoinRow(parts, i, k - 1) \o parts[k].data[i]

RECURSIVE SumCols(_, _)
SumCols(parts, k) ==
    IF k = 0 THEN 0 ELSE SumCols(parts, k - 1) + parts[k].shape[2]

\* np.concatenate(parts, axis=1) of 2-D arrays with the same number of rows
NpConcatCols(parts) ==
    LET r == parts[1].shape[1]
    IN  [shape |-> <<r, SumCols(parts, Len(parts))>>,
         data |-> [i \in 1..r |-> JoinRow(parts, i, Len(parts))]]

\* np.add(a, s) with a scalar s
NpAdd(a, s) ==
    [shape |-> a.shape,
     data |-> [i \in 1..a.shape[1] |-> [j \in 1..a.shape[2] |-> a.data[i][j] + s]]]

\* np.zeros((r, c))
NpZeros(r, c) == [shape |-> <<r, c>>, data |-> [i \in 1..r |-> [j \in 1..c |-> 0]]]

\* np.transpose(a) of a 2-D array
NpTranspose(a) ==
    [shape |-> <<a.shape[2], a.shape[1]>>,
     data |-> [j \in 1..a.shape[2] |-> [i \in 1..a.shape[1] |-> a.data[i][j]]]]

\* np.array([a]): a with a leading axis of length 1
NpStack1(a) == [shape |-> <<1>> \o a.shape, data |-> <<a.data>>]

\* ------------------------------------------------------------------ state
VARIABLES
    pc,               \* the method the rewrite driver runs next
    outcome,          \* "running", "declined", "exception" or "rewritten"
    matcher,          \* what _match_cell returns per cell type for this loop body
    lstm_cell_type,   \* self.lstm_cell_type
    cell_match,       \* context.cell_match: role name -> node of g
    g,                \* self.g: the graph, a sequence of nodes
    weights,          \* context.weights
    hidden_size,      \* context.hidden_size
    input_size,       \* context.input_size
    onnx_input_ids,   \* context.onnx_input_ids: operand name -> value id
    state_variables,  \* context.state_variables: name -> state variable
    loop_properties,  \* context.loop_properties
    select_calls,     \* the calls made to _find_state_variable_with_select
    rnn_node          \* context.rnn_node

vars == <<pc, outcome, matcher, lstm_cell_type, cell_match, g, weights, hidden_size,
          input_size, onnx_input_ids, state_variables, loop_properties, select_calls,
          rnn_node>>

\* ------------------------------------------------------------------ graph
\* A node is [type, input, attr, value, dtype]; the value id of output k of
\* node n (n its position in g) is <<n, k>>.
Node(type, input, attr, value, dtype) ==
    [type |-> type, input |-> input, attr |-> attr, value |-> value, dtype |-> dtype]

OutputId(n, k) == <<n, k>>

\* Graph.make_const / Graph.make_node: append a node, its index is its name
MakeNode(graph, node) == Append(graph, node)
NewIndex(graph) == Len(graph) + 1

\* rnn_utils.get_weights_from_const_node: the tensor of a constant node,
\* None for a node that is no constant
get_weights_from_const_node(graph, n) ==
    IF graph[n].type = "Const"
    THEN Some([node |-> n, value |-> graph[n].value[1], dtype |-> graph[n].dtype])
    ELSE None

\* ----------------------------------------------------------- cell variants
LSTMCell == "LSTMCell"
LSTMBlockCell == "LSTMBlockCell"
NoCellType == "None"
lstm_cell_types == <<LSTMCell, LSTMBlockCell>>

\* ------------------------------------------------- inputs of SpecWeights
\* Kernels: every entry names its own coordinates, so a misplaced entry shows.
KernelValue(r, c) ==
    [shape |-> <<r, c>>, data |-> [i \in 1..r |-> [j \in 1..c |-> 100 * i + j]]]
\* Biases: two injective vectors per length, one rising, one falling below zero.
BiasValue(n, s) == [shape |-> <<n>>, data |-> [k \in 1..n |-> s * k]]
BiasSlopes == {1, -3}
ForgetBiasValues == {-1, 0, 2}
\* cell_clip in tenths: -0.5, 0.0 (the default: no clipping), 0.5
ClipValues == {-5, 0, 5}
DTypes == {"float32", "float64"}
DataFormats == {"NHWC", "NCHW"}

KernelNodes ==
    {Node("Placeholder", <<>>, <<>>, None, "float32")} \cup
    {Node("Const", <<>>, <<>>, Some(KernelValue(r, c)), "float32") :
        r \in 1..MaxRows, c \in 1..MaxBiasLen}
BiasNodes ==
    {Node("Placeholder", <<>>, <<>>, None, "float32")} \cup
    {Node("Const", <<>>, <<>>, Some(BiasValue(n, s)), "float32") :
        n \in 1..MaxBiasLen, s \in BiasSlopes}
FtBiasNodes ==
    {Node("Placeholder", <<>>, <<>>, None, "float32")} \cup
    {Node("Const", <<>>, <<>>, Some(f), d) : f \in ForgetBiasValues, d \in DTypes}
BiasAddNodes ==
    {Node("BiasAdd", <<>>, [data_format |-> df], None, "float32") : df \in DataFormats}
BlockCellNodes ==
    {Node("LSTMBlockCell", <<>>, [forget_bias |-> f, cell_clip |-> c], None, "float32") :
        f \in ForgetBiasValues, c \in ClipValues}

\* The loop bodies: a decomposed cell, a fused block cell, or no LSTM cell.
LSTMCellGraphs ==
    {<<k, b, a, f>> : k \in KernelNodes, b \in BiasNodes, a \in BiasAddNodes, f \in FtBiasNodes}
LSTMBlockCellGraphs ==
    {<<k, b, c>> : k \in KernelNodes, b \in BiasNodes, c \in BlockCellNodes}
LSTMCellRoles == [cell_kernel |-> 1, cell_bias |-> 2, bias_add |-> 3, ft_bias |-> 4]
LSTMBlockCellRoles == [cell_kernel |-> 1, cell_bias |-> 2, lstm_block_cell |-> 3]

\* ---------------------------------------------------------------- actions
Decline == /\ outcome' = "declined" /\ UNCHANGED pc
Raise == /\ outcome' = "exception" /\ UNCHANGED pc
Goto(next) == /\ pc' = next /\ UNCHANGED outcome

\* find_cell: the first cell type, in the fixed order, that _match_cell matches
FindCellType(m) ==
    IF ~IsNone(m[lstm_cell_types[1]]) THEN lstm_cell_types[1]
    ELSE IF ~IsNone(m[lstm_cell_types[2]]) THEN lstm_cell_types[2]
    ELSE NoCellType

FindCell ==
    /\ pc = "find_cell" /\ outcome = "running"
    /\ LET t == FindCellType(matcher)
       IN  IF t = NoCellType
           THEN /\ Decline
                /\ UNCHANGED <<lstm_cell_type, cell_match>>
           ELSE /\ lstm_cell_type' = t
                /\ cell_match' = matcher[t][1]
                /\ Goto("get_weight_and_bias")
    /\ UNCHANGED <<matcher, g, weights, hidden_size, input_size, onnx_input_ids,
                   state_variables, loop_properties, select_calls, rnn_node>>

RnnWeights(w, b, ft) == [kernel |-> w, bias |-> b, forget_bias |-> ft]

\* _get_weight_and_bias_for_lstmblock_cell: None or RnnWeights
get_weight_and_bias_for_lstmblock_cell(graph, match) ==
    LET w == get_weights_from_const_node(graph, match.cell_kernel)
        b == get_weights_from_const_node(graph, match.cell_bias)
        lstm_block_cell == graph[match.lstm_block_cell]
    IN  IF IsNone(w) THEN None
        ELSE IF IsNone(b) THEN None
        ELSE IF b[1].value.shape[1] # w[1].value.shape[2] THEN None
        ELSE Some(RnnWeights(w[1], b[1],
                  [node |-> 0, value |-> lstm_block_cell.attr.forget_bias,
                   dtype |-> b[1].dtype]))

\* _get_weight_and_bias_for_lstm_cell: None or RnnWeights
get_weight_and_bias_for_lstm_cell(graph, match) ==
    LET w == get_weights_from_const_node(graph, match.cell_kernel)
        bias_add == graph[match.bias_add]
        b == get_weights_from_const_node(graph, match.cell_bias)
        ft == get_weights_from_const_node(graph, match.ft_bias)
    IN  IF IsNone(w) THEN None
        ELSE IF bias_add.attr.data_format # "NHWC" THEN None
        ELSE IF IsNone(b) THEN None
        ELSE IF b[1].value.shape[1] # w[1].value.shape[2] THEN None
        ELSE IF IsNone(ft) THEN None
        ELSE IF ~(b[1].dtype = ft[1].dtype) THEN None
        ELSE Some(RnnWeights(w[1], b[1], ft[1]))

\* get_weight_and_bias: dispatch on the selected variant
get_weight_and_bias(type, graph, match) ==
    IF type = LSTMCell THEN get_weight_and_bias_for_lstm_cell(graph, match)
    ELSE IF type = LSTMBlockCell THEN get_weight_and_bias_for_lstmblock_cell(graph, match)
    ELSE None

GetWeightAndBias ==
    /\ pc = "get_weight_and_bias" /\ outcome = "running"
    /\ LET w == get_weight_and_bias(lstm_cell_type, g, cell_match)
       IN  IF IsNone(w)
           THEN /\ Decline
                /\ UNCHANGED weights
           ELSE /\ weights' = w
                /\ Goto("get_attributes")
    /\ UNCHANGED <<matcher, lstm_cell_type, cell_match, g, hidden_size, input_size,
                   onnx_input_ids, state_variables, loop_properties, select_calls,
                   rnn_node>>

\* clip_unsupported that also rejects the default cell_clip of 0
clip_unsupported_or_zero(clip) == clip >= 0

\* get_attributes: False when the fused cell clips, True otherwise.  (The
\* resolver and the validity check, which run next, read neither weights
\* nor attributes: they are the actions of SpecState.)
clip_unsupported(clip) == clip > 0

get_attributes(type, graph, match) ==
    IF type = LSTMBlockCell
    THEN ~clip_unsupported(graph[match.lstm_block_cell].attr.cell_clip)
    ELSE TRUE

GetAttributes ==
    /\ pc = "get_attributes" /\ outcome = "running"
    /\ IF get_attributes(lstm_cell_type, g, cell_match)
       THEN Goto("process_weights_and_bias")
       ELSE Decline
    /\ UNCHANGED <<matcher, lstm_cell_type, cell_match, g, weights, hidden_size,
                   input_size, onnx_input_ids, state_variables, loop_properties,
                   select_calls, rnn_node>>

\* process_weights_and_bias, lines 207-208
bias_dim_of(rnn_weights) == rnn_weights.bias.value.shape[1]
hidden_size_of(rnn_weights) == bias_dim_of(rnn_weights) \div 4

\* wb_bias_iofc with the forget bias added to the cell gate instead
wb_bias_iofc_ft_on_cell(bias_gates, ft_bias) ==
    NpConcatCols(<<bias_gates[1], bias_gates[4], bias_gates[3],
                   NpAdd(bias_gates[2], ft_bias.data[1][1] - bias_gates[3].data[1][1])>>)

\* line 212: the bias gates i, c, f, o re-concatenated as i, o, f, c
wb_bias_iofc(bias_gates, ft_bias) ==
    NpConcatCols(<<bias_gates[1], bias_gates[4], ft_bias, bias_gates[2]>>)

\* lines 209-216: B, the (1, 2 * bias_dim) bias of the ONNX LSTM
bias_B(rnn_weights) ==
    LET b_r_icfo == NpReshapeRow(rnn_weights.bias.value)
        bias_gates == NpSplitCols(b_r_icfo, 4)
        ft_bias == NpAdd(bias_gates[3], rnn_weights.forget_bias.value)
        rb_bias_iofc == NpZeros(1, bias_dim_of(rnn_weights))
    IN  NpConcatCols(<<wb_bias_iofc(bias_gates, ft_bias), rb_bias_iofc>>)

\* line 219: [wx, wh] = np.split(w_r_icfo, [-1 * hidden_size])
wx_wh(rnn_weights) ==
    NpSplitRowsAt(rnn_weights.kernel.value, (-1) * hidden_size_of(rnn_weights))

\* gates_iofc with the cell and output gates left in source order
gates_iofc_unswapped(gates) == NpConcatCols(<<gates[1], gates[2], gates[3], gates[4]>>)

\* lines 226 and 229: the weight gates i, c, f, o re-concatenated as i, o, f, c
gates_iofc(gates) == NpConcatCols(<<gates[1], gates[4], gates[3], gates[2]>>)

\* lines 225-234: np.array([np.transpose(reordered gates)])
weight_iofc(w) == NpStack1(NpTranspose(gates_iofc(NpSplitCols(w, 4))))

\* The statements of process_weights_and_bias that raise: np.split of the
\* bias (line 210), the asserts (217, 222), np.split of wx and wh (225, 228).
process_weights_and_bias_raises(rnn_weights) ==
    \/ ~NpSplitDivides(NpReshapeRow(rnn_weights.bias.value), 4)
    \/ bias_B(rnn_weights).shape # <<1, 2 * bias_dim_of(rnn_weights)>>
    \/ wx_wh(rnn_weights)[1].shape[2] \div 4 # hidden_size_of(rnn_weights)
    \/ ~NpSplitDivides(wx_wh(rnn_weights)[1], 4)
    \/ ~NpSplitDivides(wx_wh(rnn_weights)[2], 4)

ConstNode(name, val, dtype) == Node("Const", <<>>, [name |-> name], Some(val), dtype)

ProcessWeightsAndBias ==
    /\ pc = "process_weights_and_bias" /\ outcome = "running"
    /\ LET rnn_weights == weights[1]
           w_dtype == rnn_weights.kernel.dtype
           b_dtype == rnn_weights.bias.dtype
           W == weight_iofc(wx_wh(rnn_weights)[1])
           R == weight_iofc(wx_wh(rnn_weights)[2])
           B == bias_B(rnn_weights)
           w_node == NewIndex(g)
           r_node == w_node + 1
           b_node == r_node + 1
       IN  IF process_weights_and_bias_raises(rnn_weights)
           THEN /\ Raise
                /\ UNCHANGED <<g, input_size, hidden_size, onnx_input_ids>>
           ELSE /\ g' = MakeNode(MakeNode(MakeNode(g,
                            ConstNode("W", W, w_dtype)),
                            ConstNode("R", R, w_dtype)),
                            ConstNode("B", B, b_dtype))
                /\ input_size' = Some(wx_wh(rnn_weights)[1].shape[1])
                /\ hidden_size' = Some(hidden_size_of(rnn_weights))
                /\ onnx_input_ids' = ("W" :> OutputId(w_node, 0)) @@
                                     ("R" :> OutputId(r_node, 0)) @@
                                     ("B" :> OutputId(b_node, 0)) @@ onnx_input_ids
                /\ Goto("process_var_init_nodes")
    /\ UNCHANGED <<matcher, lstm_cell_type, cell_match, weights, state_variables,
                   loop_properties, select_calls, rnn_node>>

\* ------------------------------------------------------------ SpecWeights
NoMatch == [t \in {LSTMCell, LSTMBlockCell} |-> None]

GraphOf(nodes) == [i \in 1..Len(nodes) |-> nodes[i]]

InitWeights ==
    /\ pc = "find_cell"
    /\ outcome = "running"
    /\ lstm_cell_type = NoCellType
    /\ cell_match = <<>>
    /\ weights = None
    /\ hidden_size = None
    /\ input_size = None
    /\ onnx_input_ids = <<>>
    /\ state_variables = <<>>
    /\ loop_properties = <<>>
    /\ select_calls = <<>>
    /\ rnn_node = None
    /\ \/ /\ g = <<>>
          /\ matcher = NoMatch
       \/ \E body \in LSTMCellGraphs :
             /\ g = GraphOf(body)
             /\ matcher = [NoMatch EXCEPT ![LSTMCell] = Some(LSTMCellRoles)]
       \/ \E body \in LSTMBlockCellGraphs :
             /\ g = GraphOf(body)
             /\ matcher = [NoMatch EXCEPT ![LSTMBlockCell] = Some(LSTMBlockCellRoles)]

NextWeights ==
    \/ FindCell
    \/ GetWeightAndBias
    \/ GetAttributes
    \/ ProcessWeightsAndBias

SpecWeights == InitWeights /\ [][NextWeights]_vars

\* ------------------------------------------- claims under SpecWeights
\* The layout transform has run: its three constants are in the graph.
WeightsProcessed == pc = "process_var_init_nodes" /\ outcome = "running"
SourceBias == weights[1].bias.value.data
SourceKernel == weights[1].kernel.value
SourceForgetBias == weights[1].forget_bias.value
ConstOf(name) == g[onnx_input_ids[name][1]].value[1]
\* the column permutation from target gate order i, o, f, c back to the
\* source order i, c, f, o: target block 0 <- 0, 1 <- 3, 2 <- 2, 3 <- 1
SourceBlock(t) == CASE t = 0 -> 0 [] t = 1 -> 3 [] t = 2 -> 2 [] t = 3 -> 1
SourceColumn(j, H) == SourceBlock((j - 1) \div H) * H + ((j - 1) % H) + 1

\* C1: for a combined bias b of length 4H and a scalar forget bias f,
\* process_weights_and_bias makes B of shape (1, 8H) with B[0, 0:H] = b[0:H],
\* B[0, H:2H] = b[3H:4H], B[0, 2H:3H] = b[2H:3H] + f, B[0, 3H:4H] = b[H:2H]
\* and B[0, 4H:8H] all zero; f is added to the forget segment only.
C1_BiasLayout ==
    WeightsProcessed =>
        LET b == SourceBias
            f == SourceForgetBias
            H == Len(b) \div 4
            B == ConstOf("B")
        IN  /\ Len(b) = 4 * H /\ H >= 1
            /\ B.shape = <<1, 8 * H>>
            /\ Len(B.data) = 1 /\ Len(B.data[1]) = 8 * H
            /\ \A k \in 1..H :
                  /\ B.data[1][k] = b[k]
                  /\ B.data[1][H + k] = b[3 * H + k]
                  /\ B.data[1][2 * H + k] = b[2 * H + k] + f
                  /\ B.data[1][3 * H + k] = b[H + k]
            /\ \A k \in (4 * H + 1)..(8 * H) : B.data[1][k] = 0

C1_Witness ==
    /\ WeightsProcessed
    /\ Len(SourceBias) = 8
    /\ SourceForgetBias = 2
    /\ SourceBias[1] = -3

\* C2: for a kernel K of shape (input_size + H, 4H) with input_size >= 1,
\* process_weights_and_bias makes W of shape (1, 4H, input_size) and R of
\* shape (1, 4H, H) with W[0, j, i] = K[i, p(j)] and
\* R[0, j, k] = K[input_size + k, p(j)], p the gate permutation, and records
\* context.hidden_size = H and context.input_size = rows(K) - H.
C2_WeightLayout ==
    (WeightsProcessed /\ SourceKernel.shape[1] > Len(SourceBias) \div 4) =>
        LET K == SourceKernel.data
            H == Len(SourceBias) \div 4
            I == SourceKernel.shape[1] - H
            W == ConstOf("W")
            R == ConstOf("R")
        IN  /\ SourceKernel.shape = <<I + H, 4 * H>>
            /\ W.shape = <<1, 4 * H, I>>
            /\ R.shape = <<1, 4 * H, H>>
            /\ Len(W.data) = 1 /\ Len(W.data[1]) = 4 * H
            /\ Len(R.data) = 1 /\ Len(R.data[1]) = 4 * H
            /\ \A j \in 1..(4 * H) :
                  /\ Len(W.data[1][j]) = I
                  /\ Len(R.data[1][j]) = H
                  /\ \A i \in 1..I : W.data[1][j][i] = K[i][SourceColumn(j, H)]
                  /\ \A k \in 1..H : R.data[1][j][k] = K[I + k][SourceColumn(j, H)]
            /\ hidden_size = Some(H)
            /\ input_size = Some(I)

C2_Witness ==
    /\ WeightsProcessed
    /\ SourceKernel.shape = <<3, 8>>
    /\ hidden_size = Some(2)
    /\ input_size = Some(1)

\* C3: get_attributes declines exactly when the variant is the fused block
\* cell and its cell_clip is strictly positive; it accepts otherwise, and in
\* every case it leaves the graph (the nodes and every node's inputs) and
\* the operand map as they were.
C3_ClipDecline ==
    [][(pc = "get_attributes" /\ outcome = "running") =>
          /\ (outcome' = "declined") <=>
                (/\ lstm_cell_type = LSTMBlockCell
                 /\ g[cell_match.lstm_block_cell].attr.cell_clip > 0)
          /\ (outcome' # "declined") =>
                (outcome' = "running" /\ pc' = "process_weights_and_bias")
          /\ g' = g
          /\ onnx_input_ids' = onnx_input_ids]_vars

C3_Witness ==
    /\ pc = "get_attributes" /\ outcome = "declined"
    /\ lstm_cell_type = LSTMBlockCell
    /\ g[cell_match.lstm_block_cell].attr.cell_clip = 5
    /\ Len(g) = 3

\* C4: a match whose combined bias length is not divisible by 4 is
\* declined: the rewrite never ends in an exception and no W, R or B
\* constant is added to the graph.
C4_NonDivisibleBiasDeclined ==
    (/\ lstm_cell_type # NoCellType
     /\ g[cell_match.cell_bias].type = "Const"
     /\ g[cell_match.cell_bias].value[1].shape[1] % 4 # 0) =>
        /\ outcome # "exception"
        /\ pc # "process_var_init_nodes"
        /\ DOMAIN onnx_input_ids = {}

\* ------------------------------------------------------- state variables
MaxLoopVars == 5       \* most loop-carried state variables of the loop
MaxScanOutputs == 2    \* most scan outputs of the loop

\* rnn_utils.is_concat_op / is_slice_op
is_concat_op(node) == node.type \in {"Concat", "ConcatV2"}
is_slice_op(node) == node.type = "Slice"

Indices(graph) == [i \in 1..Len(graph) |-> i]

\* Graph.find_output_consumers: the nodes that have the value among their inputs
find_output_consumers(graph, id) ==
    LET Consumes(n) == \E k \in 1..Len(graph[n].input) : graph[n].input[k] = id
    IN  SelectSeq(Indices(graph), Consumes)

\* Node.inputs: the producer node of every input, in input order
Inputs(graph, n) == [k \in 1..Len(graph[n].input) |-> graph[n].input[k][1]]

\* A state variable: its entry value id and its exit output, whose id is
\* None when the state is not consumed after the loop.
StateVariable(enter, exit) == [enter_input_id |-> enter, exit_output |-> [id |-> exit]]

SelectCall(finder, output_id, consumers) ==
    [finder |-> finder, output_id |-> output_id, consumers |-> consumers]

\* _ct_variable_finder: the arguments of _find_state_variable_with_select, or None
ct_variable_finder(type, graph, match) ==
    IF type = LSTMCell
    THEN Some(SelectCall("ct", OutputId(match.ct, 0), <<match.ct_identity_consumer>>))
    ELSE IF type = LSTMBlockCell
    THEN Some(SelectCall("ct", OutputId(match.lstm_block_cell, 1), <<match.lstm_block_cell>>))
    ELSE None

\* _ht_variable_finder: the arguments of _find_state_variable_with_select, or None
ht_variable_finder(type, graph, match) ==
    IF type = LSTMCell
    THEN Some(SelectCall("ht", OutputId(match.ht, 0), <<match.xh>>))
    ELSE IF type = LSTMBlockCell
    THEN Some(SelectCall("ht", OutputId(match.lstm_block_cell, 6), <<match.lstm_block_cell>>))
    ELSE None

\* _ct_ht_shared_variable_finder: the arguments of
\* _find_state_variable_with_select, or None when it returns before the call
ct_ht_shared_variable_finder(type, graph, match) ==
    IF type = LSTMBlockCell THEN None
    ELSE
    LET ct == OutputId(match.ct, 0)
        ht == OutputId(match.ht, 0)
        IsConcat(n) == is_concat_op(graph[n])
        IsSlice(n) == is_slice_op(graph[n])
        ct_concat == SelectSeq(find_output_consumers(graph, ct), IsConcat)
        ht_concat == SelectSeq(find_output_consumers(graph, ht), IsConcat)
        ct_slice == SelectSeq(Inputs(graph, match.ct_identity_consumer), IsSlice)
        ht_slice == SelectSeq(Inputs(graph, match.xh), IsSlice)
    IN  IF Len(ct_concat) # 1 \/ Len(ht_concat) # 1 \/ ct_concat[1] # ht_concat[1]
        THEN None
        ELSE IF Len(ct_slice) # 1 \/ Len(ht_slice) # 1
        THEN None
        ELSE Some(SelectCall("ct_ht", OutputId(ct_concat[1], 0),
                             <<ct_slice[1], ht_slice[1]>>))

\* _find_state_variable_with_select belongs to the loop analysis: it finds
\* the state variable of the producer or finds none.
SelectResults(call) ==
    {None, Some(StateVariable(OutputId(0, 0), Some(call.output_id)))}

\* One finder of the handler table (lines 30-38), run by the driver: on
\* success the variable is stored and the driver goes to next_found, else
\* it goes to next_missing (the next strategy) or declines.
RunFinder(name, call, next_found, next_missing) ==
    IF IsNone(call)
    THEN /\ IF next_missing = "decline" THEN Decline ELSE Goto(next_missing)
         /\ UNCHANGED <<state_variables, select_calls>>
    ELSE /\ select_calls' = Append(select_calls, call[1])
         /\ \E r \in SelectResults(call[1]) :
               IF IsNone(r)
               THEN /\ IF next_missing = "decline" THEN Decline ELSE Goto(next_missing)
                    /\ UNCHANGED state_variables
               ELSE /\ state_variables' = (name :> r[1]) @@ state_variables
                    /\ Goto(next_found)

CtVariableFinder ==
    /\ pc = "ct_finder" /\ outcome = "running"
    /\ RunFinder("ct", ct_variable_finder(lstm_cell_type, g, cell_match),
                 "ht_finder", "ct_ht_finder")
    /\ UNCHANGED <<matcher, lstm_cell_type, cell_match, g, weights, hidden_size,
                   input_size, onnx_input_ids, loop_properties, rnn_node>>

HtVariableFinder ==
    /\ pc = "ht_finder" /\ outcome = "running"
    /\ RunFinder("ht", ht_variable_finder(lstm_cell_type, g, cell_match),
                 "is_valid", "ct_ht_finder")
    /\ UNCHANGED <<matcher, lstm_cell_type, cell_match, g, weights, hidden_size,
                   input_size, onnx_input_ids, loop_properties, rnn_node>>

CtHtSharedVariableFinder ==
    /\ pc = "ct_ht_finder" /\ outcome = "running"
    /\ RunFinder("ct_ht", ct_ht_shared_variable_finder(lstm_cell_type, g, cell_match),
                 "is_valid", "decline")
    /\ UNCHANGED <<matcher, lstm_cell_type, cell_match, g, weights, hidden_size,
                   input_size, onnx_input_ids, loop_properties, rnn_node>>

\* too_many_state_variables that tolerates one extra state variable only
too_many_state_variables_from_two(n_loop, n_resolved) == n_loop - n_resolved >= 2

\* is_valid, lines 186-187: more than two state variables besides the resolved ones
too_many_state_variables(n_loop, n_resolved) == n_loop - n_resolved > 2

\* is_valid
is_valid(loop, resolved) ==
    IF too_many_state_variables(Cardinality(loop.state_variables),
                                Cardinality(DOMAIN resolved))
    THEN FALSE
    ELSE IF Len(loop.scan_outputs_exits) > 1
    THEN FALSE
    ELSE TRUE

IsValid ==
    /\ pc = "is_valid" /\ outcome = "running"
    /\ IF is_valid(loop_properties, state_variables)
       THEN Goto("process_weights_and_bias")
       ELSE Decline
    /\ UNCHANGED <<matcher, lstm_cell_type, cell_match, g, weights, hidden_size,
                   input_size, onnx_input_ids, state_variables, loop_properties,
                   select_calls, rnn_node>>

\* --------------------------------------------------- inputs of SpecState
PlainNode(type, input) == Node(type, input, <<>>, None, "float32")

\* The decomposed cell: 1 ct, 2 ht, 3 and 4 Slice nodes, 5 an Identity,
\* 6 ct_identity_consumer, 7 xh, 8 and 9 the nodes after the cell that may
\* join cell state and hidden state.
StateCellRoles == [ct |-> 1, ht |-> 2, ct_identity_consumer |-> 6, xh |-> 7]
ConsumerInputs ==
    { <<OutputId(3, 0)>>, <<OutputId(5, 0)>>, <<OutputId(3, 0), OutputId(5, 0)>>,
      <<OutputId(3, 0), OutputId(4, 0)>>, <<OutputId(5, 0), OutputId(5, 0)>> }
JoinInputs ==
    { <<OutputId(1, 0), OutputId(2, 0)>>, <<OutputId(2, 0), OutputId(1, 0)>>,
      <<OutputId(1, 0)>>, <<OutputId(2, 0)>> }
JoinTypes == {"ConcatV2", "Identity"}
StateCellGraphs ==
    { << PlainNode("Add", <<>>), PlainNode("Mul", <<>>),
         PlainNode("Slice", <<>>), PlainNode("Slice", <<>>), PlainNode("Identity", <<>>),
         PlainNode("Mul", ci), PlainNode("ConcatV2", xi),
         PlainNode(t1, j1), PlainNode(t2, j2) >> :
        ci \in ConsumerInputs, xi \in ConsumerInputs,
        t1 \in JoinTypes, j1 \in JoinInputs, t2 \in JoinTypes, j2 \in JoinInputs }
\* The fused cell: one LSTMBlockCell node.
StateBlockCellRoles == [lstm_block_cell |-> 1]
StateBlockCellGraph == << PlainNode("LSTMBlockCell", <<>>) >>

LoopProperties ==
    { [state_variables |-> 1..n, scan_outputs_exits |-> [k \in 1..m |-> OutputId(0, k)]] :
        n \in 1..MaxLoopVars, m \in 0..MaxScanOutputs }

InitState ==
    /\ pc = "ct_finder"
    /\ outcome = "running"
    /\ matcher = NoMatch
    /\ weights = None
    /\ hidden_size = None
    /\ input_size = None
    /\ onnx_input_ids = <<>>
    /\ state_variables = <<>>
    /\ select_calls = <<>>
    /\ rnn_node = None
    /\ loop_properties \in LoopProperties
    /\ \/ /\ lstm_cell_type = LSTMCell
          /\ cell_match = StateCellRoles
          /\ g \in StateCellGraphs
       \/ /\ lstm_cell_type = LSTMBlockCell
          /\ cell_match = StateBlockCellRoles
          /\ g = StateBlockCellGraph

NextState ==
    \/ CtVariableFinder
    \/ HtVariableFinder
    \/ CtHtSharedVariableFinder
    \/ IsValid

SpecState == InitState /\ [][NextState]_vars

\* --------------------------------------------- claims under SpecState
IsValidRejected == pc = "is_valid" /\ outcome = "declined"
IsValidAccepted == pc = "process_weights_and_bias" /\ outcome = "running"
ExtraStateVariables ==
    Cardinality(loop_properties.state_variables) - Cardinality(DOMAIN state_variables)
ScanOutputs == Len(loop_properties.scan_outputs_exits)

\* C5: is_valid rejects a match if and only if the loop has more than two
\* state variables besides the resolved ones, or more than one scan
\* output; exactly two extra state variables with at most one scan output
\* is accepted under both strategies, two scan outputs is always rejected.
C5_IsValid ==
    /\ IsValidRejected => (ExtraStateVariables > 2 \/ ScanOutputs > 1)
    /\ IsValidAccepted => ~(ExtraStateVariables > 2 \/ ScanOutputs > 1)
    /\ (IsValidRejected \/ IsValidAccepted) =>
          /\ (ExtraStateVariables = 2 /\ ScanOutputs <= 1) => IsValidAccepted
          /\ ScanOutputs = 2 => IsValidRejected

C5_Witness ==
    /\ IsValidAccepted
    /\ DOMAIN state_variables = {"ct_ht"}
    /\ ExtraStateVariables = 2
    /\ ScanOutputs = 1

\* The shared-state finder has run: it returned none and ended the
\* resolution, or its state variable is stored.
SharedFinderRan ==
    \/ pc = "ct_ht_finder" /\ outcome = "declined"
    \/ "ct_ht" \in DOMAIN state_variables
SharedCalls ==
    {k \in 1..Len(select_calls) : select_calls[k].finder = "ct_ht"}
CtValue == OutputId(cell_match.ct, 0)
HtValue == OutputId(cell_match.ht, 0)
JoinsOf(id) ==
    {n \in 1..Len(g) : is_concat_op(g[n]) /\ \E k \in 1..Len(g[n].input) : g[n].input[k] = id}
SlicesInto(n) ==
    {k \in 1..Len(g[n].input) : is_slice_op(g[g[n].input[k][1]])}
\* one common join of cell state and hidden state, cell state first, and
\* one slice before each of the cell's two consumers
SharedPattern ==
    /\ lstm_cell_type = LSTMCell
    /\ Cardinality(JoinsOf(CtValue)) = 1
    /\ Cardinality(JoinsOf(HtValue)) = 1
    /\ JoinsOf(CtValue) = JoinsOf(HtValue)
    /\ \A n \in JoinsOf(CtValue) :
          /\ Len(g[n].input) >= 2
          /\ g[n].input[1] = CtValue
          /\ g[n].input[2] = HtValue
    /\ Cardinality(SlicesInto(cell_match.ct_identity_consumer)) = 1
    /\ Cardinality(SlicesInto(cell_match.xh)) = 1

\* C10: the shared-state finder calls the state-variable resolution
\* procedure only for the decomposed cell whose cell-state and hidden-state
\* outputs have exactly one, common, concatenation consumer with cell state
\* as first and hidden state as second operand and whose two consumers have
\* exactly one slice among their inputs; in every other case (hidden-first
\* join order among them) it returns none without the call; when it calls,
\* the arguments are the join's output and exactly the two slice nodes.
C10_SharedFinderPattern ==
    SharedFinderRan =>
        /\ (SharedCalls # {}) <=> SharedPattern
        /\ ("ct_ht" \in DOMAIN state_variables) => SharedPattern
        /\ \A k \in SharedCalls :
              /\ \E n \in JoinsOf(CtValue) : select_calls[k].output_id = OutputId(n, 0)
              /\ Len(select_calls[k].consumers) = 2
              /\ is_slice_op(g[select_calls[k].consumers[1]])
              /\ is_slice_op(g[select_calls[k].consumers[2]])
              /\ select_calls[k].consumers[1]
                    \in {g[cell_match.ct_identity_consumer].input[i][1] :
                            i \in SlicesInto(cell_match.ct_identity_consumer)}
              /\ select_calls[k].consumers[2]
                    \in {g[cell_match.xh].input[i][1] : i \in SlicesInto(cell_match.xh)}

\* -------------------------------------------------- initial state, node
MaxHidden == 2     \* largest hidden_size of the rewiring runs

\* Graph.get_shape / Graph.get_dtype of a value
get_shape(graph, id) == graph[id[1]].attr.shapes[id[2] + 1]
get_dtype(graph, id) == graph[id[1]].dtype

\* Graph.get_nodes
get_nodes(graph) == 1..Len(graph)

\* Graph.replace_all_inputs(ops, old, new): every input slot of the nodes
\* in ops that holds old now holds new
replace_all_inputs(graph, ops, old, new) ==
    [n \in 1..Len(graph) |->
        IF n \in ops
        THEN [graph[n] EXCEPT !.input =
                 [k \in 1..Len(graph[n].input) |->
                     IF Some(graph[n].input[k]) = old THEN new ELSE graph[n].input[k]]]
        ELSE graph[n]]

\* Graph.make_node(op, inputs, attr) without declared output shapes
OpNode(type, input, attr) == Node(type, input, attr, None, "")

\* _process_non_tuple_ch_init_nodes: the graph with two Slice and two
\* Unsqueeze nodes added, and the pair of value ids it returns
process_non_tuple_ch_init_nodes(graph, svs, hs) ==
    LET input_id == svs["ct_ht"].enter_input_id
        slice_node1 == NewIndex(graph)
        unsqueeze_node_1 == slice_node1 + 1
        slice_node2 == slice_node1 + 2
        unsqueeze_node_2 == slice_node1 + 3
        g1 == MakeNode(graph, OpNode("Slice", <<input_id>>,
                  [axes |-> <<1>>, starts |-> <<0>>, ends |-> <<hs>>]))
        g2 == MakeNode(g1, OpNode("Unsqueeze", <<OutputId(slice_node1, 0)>>,
                  [axes |-> <<0>>]))
        g3 == MakeNode(g2, OpNode("Slice", <<input_id>>,
                  [axes |-> <<1>>, starts |-> <<hs>>, ends |-> <<hs * 2>>]))
        g4 == MakeNode(g3, OpNode("Unsqueeze", <<OutputId(slice_node2, 0)>>,
                  [axes |-> <<0>>]))
    IN  [graph |-> g4,
         ids |-> <<OutputId(unsqueeze_node_1, 0), OutputId(unsqueeze_node_2, 0)>>]

\* _process_c_or_h_init_nodes: the graph after it, and the value id it returns
process_c_or_h_init_nodes(graph, initializer_input_id) ==
    LET node == initializer_input_id[1]
    IN  IF graph[node].type = "Const"
        THEN [graph |-> MakeNode(graph,
                          ConstNode("Const", NpStack1(graph[node].value[1]),
                                    graph[node].dtype)),
              id |-> OutputId(NewIndex(graph), 0)]
        ELSE LET squeeze_node == NewIndex(graph)
                 g1 == MakeNode(graph, OpNode("Unsqueeze", <<initializer_input_id>>,
                                              [axes |-> <<0>>]))
                 to_replace == get_nodes(g1) \ {squeeze_node}
             IN  [graph |-> replace_all_inputs(g1, to_replace,
                                Some(initializer_input_id), OutputId(squeeze_node, 0)),
                  id |-> OutputId(squeeze_node, 0)]

\* _process_tuple_ch_init_nodes: the hidden entry first, then the cell entry
process_tuple_ch_init_nodes(graph, svs) ==
    LET h_init_input_id == svs["ht"].enter_input_id
        c_init_input_id == svs["ct"].enter_input_id
        h == process_c_or_h_init_nodes(graph, h_init_input_id)
        c == process_c_or_h_init_nodes(h.graph, c_init_input_id)
    IN  [graph |-> c.graph, ids |-> <<h.id, c.id>>]

\* var_init_strategy that tests for the split pair first
var_init_strategy_tuple_first(svs) ==
    IF "ct" \in DOMAIN svs /\ "ht" \in DOMAIN svs THEN "tuple"
    ELSE IF "ct_ht" \in DOMAIN svs THEN "non_tuple"
    ELSE "ValueError"

\* process_var_init_nodes, lines 257-262: the branch taken
var_init_strategy(svs) ==
    IF "ct_ht" \in DOMAIN svs THEN "non_tuple"
    ELSE IF "ct" \in DOMAIN svs /\ "ht" \in DOMAIN svs THEN "tuple"
    ELSE "ValueError"

ProcessVarInitNodes ==
    /\ pc = "process_var_init_nodes" /\ outcome = "running"
    /\ LET strategy == var_init_strategy(state_variables)
           r == IF strategy = "non_tuple"
                THEN process_non_tuple_ch_init_nodes(g, state_variables, hidden_size[1])
                ELSE process_tuple_ch_init_nodes(g, state_variables)
           init_h_id == r.ids[1]
           init_c_id == r.ids[2]
       IN  IF strategy = "ValueError"
           THEN /\ Raise
                /\ UNCHANGED <<g, onnx_input_ids>>
           ELSE IF Len(init_h_id) = 0 \/ Len(init_c_id) = 0
           THEN /\ Raise
                /\ g' = r.graph
                /\ UNCHANGED onnx_input_ids
           ELSE /\ g' = r.graph
                /\ onnx_input_ids' = ("initial_h" :> init_h_id) @@
                                     ("initial_c" :> init_c_id) @@ onnx_input_ids
                /\ Goto("create_rnn_node")
    /\ UNCHANGED <<matcher, lstm_cell_type, cell_match, weights, hidden_size, input_size,
                   state_variables, loop_properties, select_calls, rnn_node>>

\* The handlers of the strategy that resolved (lines 30-38): the split
\* pair is tried first, the shared handler second.
ConnectStage(svs) ==
    IF "ct" \in DOMAIN svs /\ "ht" \in DOMAIN svs THEN "connect_split" ELSE "connect_ych"

CreateRnnNode ==
    /\ pc = "create_rnn_node" /\ outcome = "running"
    /\ LET num_direction == 1
           inputs == onnx_input_ids
           lstm_inputs == <<inputs["X"], inputs["W"], inputs["R"], inputs["B"],
                            inputs["sequence_lens"], inputs["initial_h"],
                            inputs["initial_c"]>>
           x_shape == get_shape(g, lstm_inputs[1])
           x_seq_length == x_shape[1]
           x_batch_size == x_shape[2]
           out_dtype == get_dtype(g, lstm_inputs[1])
       IN  /\ g' = MakeNode(g, Node("LSTM", lstm_inputs,
                     [direction |-> "forward", hidden_size |-> hidden_size[1],
                      shapes |-> << <<x_seq_length, num_direction, x_batch_size,
                                      hidden_size[1]>>,
                                    <<num_direction, x_batch_size, hidden_size[1]>>,
                                    <<num_direction, x_batch_size, hidden_size[1]>> >>],
                     None, out_dtype))
           /\ rnn_node' = Some(NewIndex(g))
    /\ Goto(ConnectStage(state_variables))
    /\ UNCHANGED <<matcher, lstm_cell_type, cell_match, weights, hidden_size, input_size,
                   onnx_input_ids, state_variables, loop_properties, select_calls>>

\* ------------------------------------------------------ output connectors
\* lines 335-339 and 347-351: Squeeze output k of the LSTM node and point
\* the consumers of the exit value at it
connect_squeezed(graph, output_id, exit_id) ==
    LET shape == get_shape(graph, output_id)
        squeeze_node == NewIndex(graph)
        g1 == MakeNode(graph, Node("Squeeze", <<output_id>>,
                  [axes |-> <<0>>, shapes |-> << <<shape[2], shape[3]>> >>],
                  None, get_dtype(graph, output_id)))
    IN  replace_all_inputs(g1, get_nodes(g1), exit_id, OutputId(squeeze_node, 0))

\* _connect_lstm_yh_to_graph
connect_lstm_yh_to_graph(graph, svs, rnn) ==
    connect_squeezed(graph, OutputId(rnn, 1), svs["ht"].exit_output.id)

\* _connect_lstm_yc_to_graph
connect_lstm_yc_to_graph(graph, svs, rnn) ==
    connect_squeezed(graph, OutputId(rnn, 2), svs["ct"].exit_output.id)

\* _connect_lstm_ych_to_graph
connect_lstm_ych_to_graph(graph, svs, rnn) ==
    LET exit_id == svs["ct_ht"].exit_output.id
        yc_shape == get_shape(graph, OutputId(rnn, 2))
        concat_output_shape == <<yc_shape[1], yc_shape[2], yc_shape[3] * 2>>
        concat == NewIndex(graph)
        g1 == MakeNode(graph, Node("Concat", <<OutputId(rnn, 2), OutputId(rnn, 1)>>,
                  [axis |-> 2, shapes |-> <<concat_output_shape>>],
                  None, get_dtype(graph, OutputId(rnn, 2))))
        squeeze_output_shape == <<concat_output_shape[2], concat_output_shape[3]>>
        squeeze_node == concat + 1
        g2 == MakeNode(g1, Node("Squeeze", <<OutputId(concat, 0)>>,
                  [axes |-> <<0>>, shapes |-> <<squeeze_output_shape>>],
                  None, get_dtype(g1, OutputId(concat, 0))))
    IN  replace_all_inputs(g2, get_nodes(g2), exit_id, OutputId(squeeze_node, 0))

ConnectLstmYhToGraph ==
    /\ pc \in {"connect_split", "connect_yh"} /\ outcome = "running"
    /\ g' = connect_lstm_yh_to_graph(g, state_variables, rnn_node[1])
    /\ IF pc = "connect_split"
       THEN Goto("connect_yc")
       ELSE /\ pc' = "done" /\ outcome' = "rewritten"
    /\ UNCHANGED <<matcher, lstm_cell_type, cell_match, weights, hidden_size, input_size,
                   onnx_input_ids, state_variables, loop_properties, select_calls,
                   rnn_node>>

ConnectLstmYcToGraph ==
    /\ pc \in {"connect_split", "connect_yc"} /\ outcome = "running"
    /\ g' = connect_lstm_yc_to_graph(g, state_variables, rnn_node[1])
    /\ IF pc = "connect_split"
       THEN Goto("connect_yh")
       ELSE /\ pc' = "done" /\ outcome' = "rewritten"
    /\ UNCHANGED <<matcher, lstm_cell_type, cell_match, weights, hidden_size, input_size,
                   onnx_input_ids, state_variables, loop_properties, select_calls,
                   rnn_node>>

ConnectLstmYchToGraph ==
    /\ pc = "connect_ych" /\ outcome = "running"
    /\ g' = connect_lstm_ych_to_graph(g, state_variables, rnn_node[1])
    /\ pc' = "done" /\ outcome' = "rewritten"
    /\ UNCHANGED <<matcher, lstm_cell_type, cell_match, weights, hidden_size, input_size,
                   onnx_input_ids, state_variables, loop_properties, select_calls,
                   rnn_node>>

\* -------------------------------------------------- inputs of SpecRewire
\* The graph when initial-state preparation starts: 1 X, 2 sequence_lens,
\* 3 W, 4 R, 5 B, 6 and 7 the producers of the split entry values, 8 the
\* producer of the combined entry value, 9 to 11 the Exit nodes of ht, ct
\* and ct_ht, 12 a consumer of an entry value, 13 a consumer of an exit value.
EntryProducer(is_const, hs) ==
    IF is_const THEN ConstNode("zeros", NpZeros(1, hs), "float32")
    ELSE PlainNode("Placeholder", <<>>)

RewireGraph(hs, h_const, c_const, entry_use, exit_use) ==
    << Node("Placeholder", <<>>, [shapes |-> << <<3, 1, 1>> >>], None, "float32"),
       PlainNode("Placeholder", <<>>),
       ConstNode("W", NpStack1(NpZeros(4 * hs, 1)), "float32"),
       ConstNode("R", NpStack1(NpZeros(4 * hs, hs)), "float32"),
       ConstNode("B", NpZeros(1, 8 * hs), "float32"),
       EntryProducer(h_const, hs),
       EntryProducer(c_const, hs),
       PlainNode("Placeholder", <<>>),
       PlainNode("Exit", <<>>),
       PlainNode("Exit", <<>>),
       PlainNode("Exit", <<>>),
       PlainNode("Identity", <<entry_use>>),
       PlainNode("Identity", <<exit_use>>) >>

RewireOperands ==
    [X |-> OutputId(1, 0), sequence_lens |-> OutputId(2, 0), W |-> OutputId(3, 0),
     R |-> OutputId(4, 0), B |-> OutputId(5, 0)]

EntryIds == {OutputId(6, 0), OutputId(7, 0), OutputId(8, 0)}
ExitIds == {OutputId(9, 0), OutputId(10, 0), OutputId(11, 0)}

\* The resolved state variables: any of ht, ct and ct_ht; the two split
\* entries may be one value; an exit may be absent.
HtVariables == {StateVariable(OutputId(6, 0), x) : x \in {None, Some(OutputId(9, 0))}}
CtVariables ==
    {StateVariable(e, x) : e \in {OutputId(6, 0), OutputId(7, 0)},
                           x \in {None, Some(OutputId(10, 0))}}
CtHtVariables == {StateVariable(OutputId(8, 0), x) : x \in {None, Some(OutputId(11, 0))}}
RECURSIVE VariableMaps(_)
VariableMaps(names) ==
    IF names = {} THEN {<<>>}
    ELSE LET name == CHOOSE n \in names : TRUE
             choices == CASE name = "ht" -> HtVariables
                          [] name = "ct" -> CtVariables
                          [] name = "ct_ht" -> CtHtVariables
         IN  {(name :> v) @@ m : v \in choices, m \in VariableMaps(names \ {name})}
ResolvedVariables ==
    UNION {VariableMaps(names) : names \in SUBSET {"ht", "ct", "ct_ht"}}

InitRewire ==
    /\ pc = "process_var_init_nodes"
    /\ outcome = "running"
    /\ matcher = NoMatch
    /\ lstm_cell_type = LSTMCell
    /\ cell_match = <<>>
    /\ weights = None
    /\ input_size = Some(1)
    /\ loop_properties = <<>>
    /\ select_calls = <<>>
    /\ rnn_node = None
    /\ onnx_input_ids = RewireOperands
    /\ state_variables \in ResolvedVariables
    /\ \E hs \in 1..MaxHidden, h_const \in BOOLEAN, c_const \in BOOLEAN,
          entry_use \in EntryIds, exit_use \in ExitIds :
          /\ hidden_size = Some(hs)
          /\ g = RewireGraph(hs, h_const, c_const, entry_use, exit_use)

NextRewire ==
    \/ ProcessVarInitNodes
    \/ CreateRnnNode
    \/ ConnectLstmYhToGraph
    \/ ConnectLstmYcToGraph
    \/ ConnectLstmYchToGraph

SpecRewire == InitRewire /\ [][NextRewire]_vars

\* -------------------------------------------- claims under SpecRewire
ResolvedNames == DOMAIN state_variables
\* the strategy the handlers of the rewrite belong to
SplitResolved == "ct" \in ResolvedNames /\ "ht" \in ResolvedNames
SharedResolved == "ct_ht" \in ResolvedNames /\ ~SplitResolved
NodesOfType(type) == {n \in 1..Len(g) : g[n].type = type}
Consumes(n, id) == \E k \in 1..Len(g[n].input) : g[n].input[k] = id
NoExit(name) == IsNone(state_variables[name].exit_output.id)

\* C6: when a resolved state variable has no exit, its reconnection is
\* skipped: the hidden-only, cell-only and shared reconnectors create no
\* Squeeze or Concat node and redirect no input, so the graph stays as it
\* was when the fused instruction was created.
C6_NoExitSkipsReconnection ==
    ~IsNone(rnn_node) =>
        LET rnn == rnn_node[1]
            Reconnects(k) ==
                \E n \in NodesOfType("Squeeze") \cup NodesOfType("Concat") :
                    Consumes(n, OutputId(rnn, k))
        IN  /\ (SplitResolved /\ NoExit("ht")) => ~Reconnects(1)
            /\ (SplitResolved /\ NoExit("ct")) => ~Reconnects(2)
            /\ (SharedResolved /\ NoExit("ct_ht")) => (~Reconnects(1) /\ ~Reconnects(2))
            /\ (SplitResolved /\ NoExit("ht") /\ NoExit("ct")) => Len(g) = rnn
            /\ (SharedResolved /\ NoExit("ct_ht")) => Len(g) = rnn

\* C7: process_var_init_nodes raises exactly when the resolved state
\* variables hold neither "ct_ht" nor both "ct" and "ht", and then adds no
\* "initial_h" or "initial_c" operand; otherwise it uses one strategy only
\* (shared if "ct_ht" is present, else split) and sets both operands to
\* non-empty value ids.
C7_VarInitOutcome ==
    LET fatal == "ct_ht" \notin ResolvedNames /\ ~SplitResolved
        ran == pc # "process_var_init_nodes" \/ outcome # "running"
        operands == DOMAIN onnx_input_ids
    IN  ran =>
          /\ (outcome = "exception") <=> fatal
          /\ fatal => /\ pc = "process_var_init_nodes"
                      /\ "initial_h" \notin operands
                      /\ "initial_c" \notin operands
                      /\ NodesOfType("Slice") = {}
                      /\ NodesOfType("Unsqueeze") = {}
          /\ ~fatal =>
                /\ "initial_h" \in operands /\ Len(onnx_input_ids["initial_h"]) > 0
                /\ "initial_c" \in operands /\ Len(onnx_input_ids["initial_c"]) > 0
                /\ IF "ct_ht" \in ResolvedNames
                   THEN /\ Cardinality(NodesOfType("Slice")) = 2
                        /\ Cardinality(NodesOfType("Unsqueeze")) = 2
                        /\ \A n \in NodesOfType("Slice") :
                              g[n].input = <<state_variables["ct_ht"].enter_input_id>>
                        /\ \A n \in NodesOfType("Unsqueeze") :
                              g[g[n].input[1][1]].type = "Slice"
                        /\ g[onnx_input_ids["initial_h"][1]].type = "Unsqueeze"
                        /\ g[onnx_input_ids["initial_c"][1]].type = "Unsqueeze"
                   ELSE /\ NodesOfType("Slice") = {}
                        /\ g[onnx_input_ids["initial_h"][1]].type \in {"Unsqueeze", "Const"}
                        /\ g[onnx_input_ids["initial_c"][1]].type \in {"Unsqueeze", "Const"}

C7_Witness ==
    /\ pc = "process_var_init_nodes" /\ outcome = "exception"
    /\ ResolvedNames = {"ct"}

\* ONNX operators on tensors written as nested sequences
OnnxSlice(t, start, end) == [r \in 1..Len(t) |-> SubSeq(t[r], start + 1, end)]
OnnxUnsqueeze(t) == <<t>>
OnnxSqueeze(t) == t[1]
OnnxConcat(a, b) == [d \in 1..Len(a) |-> [r \in 1..Len(a[d]) |-> a[d][r] \o b[d][r]]]
\* a combined entry value of shape (1, 2 * hs): the cell state 1..hs, then
\* the hidden state hs+1..2*hs
EntryTensor(hs) == << [k \in 1..(2 * hs) |-> k] >>
\* The tensor a value id carries when the LSTM node hands its initial
\* hidden and cell state through unchanged.
RECURSIVE Eval(_, _, _)
Eval(graph, id, entry) ==
    LET node == graph[id[1]]
    IN  CASE node.type = "Placeholder" -> entry
          [] node.type = "Slice" ->
                OnnxSlice(Eval(graph, node.input[1], entry),
                          node.attr.starts[1], node.attr.ends[1])
          [] node.type = "Unsqueeze" -> OnnxUnsqueeze(Eval(graph, node.input[1], entry))
          [] node.type = "Squeeze" -> OnnxSqueeze(Eval(graph, node.input[1], entry))
          [] node.type = "Concat" ->
                OnnxConcat(Eval(graph, node.input[1], entry),
                           Eval(graph, node.input[2], entry))
          [] node.type = "LSTM" ->
                IF id[2] = 1 THEN Eval(graph, node.input[6], entry)
                ELSE Eval(graph, node.input[7], entry)

\* the value is Unsqueeze(Slice(source, axis 1, [start, end)))
UnsqueezedSlice(id, source, start, end) ==
    /\ g[id[1]].type = "Unsqueeze"
    /\ LET slice == g[g[id[1]].input[1][1]]
       IN  /\ slice.type = "Slice"
           /\ slice.input = <<source>>
           /\ slice.attr.axes = <<1>>
           /\ slice.attr.starts = <<start>>
           /\ slice.attr.ends = <<end>>

\* C8: under the shared strategy the entry split and the exit join use the
\* same layout, cell state first: initial_c is the slice [0, hidden_size)
\* of the combined entry value and initial_h the slice
\* [hidden_size, 2 * hidden_size); the combined exit is replaced by
\* Squeeze(Concat(cell output, hidden output)); so a state fed in as (c, h)
\* and passed through unchanged comes out as (c, h).
C8_SharedLayoutRoundTrip ==
    (/\ pc = "done"
     /\ SharedResolved
     /\ ~NoExit("ct_ht")) =>
        LET entry == state_variables["ct_ht"].enter_input_id
            exit == state_variables["ct_ht"].exit_output.id[1]
            H == hidden_size[1]
            rnn == rnn_node[1]
            squeeze == Len(g)
            concat == g[squeeze].input[1][1]
        IN  /\ UnsqueezedSlice(onnx_input_ids["initial_c"], entry, 0, H)
            /\ UnsqueezedSlice(onnx_input_ids["initial_h"], entry, H, 2 * H)
            /\ g[squeeze].type = "Squeeze"
            /\ g[concat].type = "Concat"
            /\ g[concat].input = <<OutputId(rnn, 2), OutputId(rnn, 1)>>
            /\ \A n \in 1..Len(g) : ~Consumes(n, exit)
            /\ Eval(g, OutputId(squeeze, 0), EntryTensor(H)) =
                  Eval(g, entry, EntryTensor(H))

\* C9: after split-strategy initial-state preparation with non-constant
\* entry values, every Unsqueeze node it inserted still has its entry value
\* as input, initial_h and initial_c are each one Unsqueeze of their own
\* entry value, and no node consumes its own output; also when the hidden
\* and the cell entry are the same value.
C9_SplitInitUnsqueezeInputs ==
    (/\ pc # "process_var_init_nodes"
     /\ SplitResolved /\ "ct_ht" \notin ResolvedNames
     /\ g[state_variables["ht"].enter_input_id[1]].type # "Const"
     /\ g[state_variables["ct"].enter_input_id[1]].type # "Const") =>
        LET h_entry == state_variables["ht"].enter_input_id
            c_entry == state_variables["ct"].enter_input_id
            initial_h == onnx_input_ids["initial_h"]
            initial_c == onnx_input_ids["initial_c"]
        IN  /\ \A n \in NodesOfType("Unsqueeze") : g[n].input[1] \in {h_entry, c_entry}
            /\ g[initial_h[1]].type = "Unsqueeze" /\ g[initial_h[1]].input = <<h_entry>>
            /\ g[initial_c[1]].type = "Unsqueeze" /\ g[initial_c[1]].input = <<c_entry>>
            /\ \A n \in 1..Len(g) : ~Consumes(n, OutputId(n, 0))

====
